---- MODULE Spec2Model ----
(***************************************************************************)
(* Model of app.py of colorGifts: the startup build of the color index    *)
(* (load_initial_data) and the search pipeline (search_gifts) that merges  *)
(* the Portals (source A) and Tonnel (source B) marketplaces.              *)
(*                                                                         *)
(* Prices are exact rationals in tenths of the upstream unit: a Portals    *)
(* price p is the number 10 * p, a Tonnel price p after the 1.1 markup is  *)
(* 11 * p.  Pass-through fields of a gift (id, imageUrl, buyUrl) are not   *)
(* represented.                                                            *)
(***************************************************************************)
EXTENDS Integers, Sequences, FiniteSets, TLC

VARIABLES remote, CACHED_DATA, loaded, req

vars == <<remote, CACHED_DATA, loaded, req>>

(* ---------------------------- bounds ----------------------------------- *)
NumFiles == 3
MaxEntries == 1
MaxRecords == 1
NumRequests == 2

(* ---------------------------- names ------------------------------------ *)
Collections == {"c1", "c2"}
Models == {"m1", "m2"}
ColorKeys == {"red", "blue", "unknown"}

Pair(c, m) == <<c, m>>

RECURSIVE SeqsUpTo(_, _)
SeqsUpTo(S, n) ==
    IF n = 0 THEN {<<>>}
    ELSE LET shorter == SeqsUpTo(S, n - 1)
         IN shorter \cup {Append(s, x) : s \in {t \in shorter : Len(t) = n - 1}, x \in S}

Range(s) == {s[i] : i \in DOMAIN s}

(* ===================== startup build: load_initial_data ================= *)

EmptyMap == [c \in ColorKeys |-> <<>>]

InitialCache == [collections |-> <<>>, backdrops |-> <<>>, color_model_map |-> EmptyMap]

CollectionsDoc == <<[id |-> "1", name |-> "c1"], [id |-> "2", name |-> "c2"]>>
BackdropsDoc == <<"Black", "Amber">>

(* The value stored under one model name of a per-collection file:        *)
(* a JSON object with or without main_color, a bare string, or a number.  *)
EntryData ==
    {[kind |-> "dict", color |-> "red"], [kind |-> "dict", color |-> "blue"],
     [kind |-> "dict", color |-> ""],
     [kind |-> "str", color |-> "blue"],
     [kind |-> "num", color |-> ""]}

Entries == [model : Models, data : EntryData]

(* The bodies a file can have: the keys of one JSON object are distinct.  *)
FileBodies ==
    {b \in SeqsUpTo(Entries, MaxEntries) :
        \A i, j \in DOMAIN b : i # j => b[i].model # b[j].model}

FileNames == <<"c1", "c2", "c3", "c4">>

(* body "fail": the download or the JSON parse of the file raises.        *)
FilesAt(i) ==
    {[stem |-> FileNames[i], ext |-> ".json", ok |-> TRUE, body |-> b] : b \in FileBodies}
    \cup {[stem |-> FileNames[i], ext |-> ".json", ok |-> FALSE, body |-> <<>>],
          [stem |-> "README", ext |-> ".md", ok |-> TRUE, body |-> <<>>]}

RECURSIVE Listings(_)
Listings(n) ==
    IF n = 0 THEN {<<>>}
    ELSE {Append(l, f) : l \in Listings(n - 1), f \in FilesAt(n)}

Remotes ==
    [collections_ok : BOOLEAN, backdrops_ok : BOOLEAN, listing_ok : BOOLEAN,
     files : Listings(NumFiles)]

(* data.get("main_color", "unknown"): only a dict has .get               *)
MainColorRaises(data) == data.kind # "dict"
MainColor(data) == IF data.color = "" THEN "unknown" ELSE data.color

(* for model_name, data in models_data.items(): ...                       *)
RECURSIVE LoadEntries(_, _, _)
LoadEntries(map, gift_name, entries) ==
    IF entries = <<>> THEN [map |-> map, raised |-> FALSE]
    ELSE LET e == Head(entries)
         IN IF MainColorRaises(e.data) THEN [map |-> map, raised |-> TRUE]
            ELSE LoadEntries(
                    [map EXCEPT ![MainColor(e.data)] = Append(@, Pair(gift_name, e.model))],
                    gift_name, Tail(entries))

(* for file in files: if file['name'].endswith('.json'): ...              *)
RECURSIVE LoadFiles(_, _)
LoadFiles(map, files) ==
    IF files = <<>> THEN [map |-> map, raised |-> FALSE]
    ELSE LET f == Head(files)
         IN IF f.ext # ".json" THEN LoadFiles(map, Tail(files))
            ELSE IF ~f.ok THEN [map |-> map, raised |-> TRUE]
            ELSE LET r == LoadEntries(map, f.stem, f.body)
                 IN IF r.raised THEN r ELSE LoadFiles(r.map, Tail(files))

(* The body of the try block, statement by statement; caught tells        *)
(* whether the except clause ran; escaped whether an exception left the   *)
(* function (the clause catches Exception, so none does).                 *)
LoadResult(cache, rem) ==
    IF ~rem.collections_ok THEN [cache |-> cache, caught |-> TRUE, escaped |-> FALSE]
    ELSE LET c1 == [cache EXCEPT !.collections = CollectionsDoc]
         IN IF ~rem.backdrops_ok THEN [cache |-> c1, caught |-> TRUE, escaped |-> FALSE]
            ELSE LET c2 == [c1 EXCEPT !.backdrops = BackdropsDoc]
                 IN IF ~rem.listing_ok THEN [cache |-> c2, caught |-> TRUE, escaped |-> FALSE]
                    ELSE LET r == LoadFiles(c2.color_model_map, rem.files)
                         IN [cache |-> [c2 EXCEPT !.color_model_map = r.map],
                             caught |-> r.raised, escaped |-> FALSE]

load_initial_data ==
    /\ loaded = "no"
    /\ LET r == LoadResult(CACHED_DATA, remote)
       IN /\ CACHED_DATA' = r.cache
          /\ loaded' = IF r.escaped THEN "crashed" ELSE "yes"
    /\ UNCHANGED <<remote, req>>


(* ========================= search: search_gifts ======================== *)

Requests == 1 .. NumRequests

NoPrice == [given |-> FALSE, v |-> 0]
Price(n) == [given |-> TRUE, v |-> n]

IdleReq ==
    [pc |-> "idle", color |-> "", collections |-> <<>>,
     min_price |-> NoPrice, max_price |-> NoPrice, sort |-> "",
     models_for_color |-> <<>>, all_gifts |-> <<>>,
     collections_to_search |-> <<>>, tidx |-> 0,
     status |-> 0, response |-> <<>>, filters_body |-> InitialCache,
     portals_outcome |-> "none", a_count |-> 0, tonnel_outcomes |-> <<>>,
     merged |-> <<>>]

(* args.get('sort', 'price_asc')                                          *)
ParseSort(raw) == IF raw = "absent" THEN "price_asc" ELSE raw

(* CACHED_DATA["color_model_map"].get(color, [])                          *)
Lookup(map, color) == IF color \in DOMAIN map THEN map[color] ELSE <<>>

(* [m for m in models_for_color if m[0] in collections]                   *)
FilterByCollections(pairs, collections) ==
    LET InFilter(m) == m[1] \in Range(collections)
    IN IF collections # <<>> THEN SelectSeq(pairs, InFilter) ELSE pairs

(* [m[1] for m in models_for_color if m[0] == collection_name]            *)
ModelsInCollection(pairs, collection_name) ==
    {pairs[i][2] : i \in {j \in DOMAIN pairs : pairs[j][1] = collection_name}}

DistinctCollections(pairs) == {pairs[i][1] : i \in DOMAIN pairs}

(* ------------------------- normalizers --------------------------------- *)

(* gift.get('model', '').split(' (')[0] on a model string given as its    *)
(* pieces, " (" being a piece of its own.                                  *)
ParsedModel(raw) == IF raw = <<>> \/ raw[1] = " (" THEN "" ELSE raw[1]

format_portals_gift(gift) ==
    [source |-> "portals", name |-> gift.name, model |-> gift.model,
     price |-> gift.price * 10]

format_tonnel_gift(gift) ==
    [source |-> "tonnel", name |-> gift.name, model |-> ParsedModel(gift.model),
     price |-> gift.price * 11]

(* ------------------------- upstream answers ---------------------------- *)

PortalsRawPrices == {11}
TonnelRawPrices == {10, 11}

(* has_model: the attribute list holds an attribute of type "model";      *)
(* has_name: the record has the key "name" (gift['name'] raises without). *)
PortalsRecords ==
    [name : Collections, has_name : {TRUE}, has_model : {TRUE}, model : Models,
     price : PortalsRawPrices]
    \cup [name : Collections, has_name : {TRUE}, has_model : {FALSE}, model : {"m1"},
          price : {11}]
    \cup [name : {""}, has_name : {FALSE}, has_model : {TRUE}, model : {"m1"},
          price : {11}]

RawModels == {<<"m1", " (", "1%)">>, <<"m2">>, <<>>}

(* price_null: the record's price is null, so price * 1.1 raises.         *)
TonnelRecords ==
    [name : Collections, model : RawModels, price : TonnelRawPrices, price_null : {FALSE}]
    \cup [name : {"c1"}, model : {<<"m1">>}, price : {0}, price_null : {TRUE}]

Answers(records, n) ==
    {[raised |-> TRUE, records |-> <<>>]}
    \cup {[raised |-> FALSE, records |-> s] : s \in SeqsUpTo(records, n)}

PortalsResponses == Answers(PortalsRecords, MaxRecords)
TonnelResponses == Answers(TonnelRecords, MaxRecords)

(* for gift in portals_results: ... all_gifts.append(format_portals_gift) *)
RECURSIVE AcceptPortals(_, _, _)
AcceptPortals(all_gifts, records, models_for_color) ==
    IF records = <<>> THEN [all_gifts |-> all_gifts, raised |-> FALSE]
    ELSE LET gift == Head(records)
         IN IF ~gift.has_model
            THEN AcceptPortals(all_gifts, Tail(records), models_for_color)
            ELSE IF ~gift.has_name THEN [all_gifts |-> all_gifts, raised |-> TRUE]
            ELSE IF Pair(gift.name, gift.model) \in Range(models_for_color)
            THEN AcceptPortals(Append(all_gifts, format_portals_gift(gift)),
                               Tail(records), models_for_color)
            ELSE AcceptPortals(all_gifts, Tail(records), models_for_color)

(* for gift in tonnel_results: ... all_gifts.append(format_tonnel_gift)   *)
RECURSIVE AcceptTonnel(_, _, _)
AcceptTonnel(all_gifts, records, models_in_collection) ==
    IF records = <<>> THEN [all_gifts |-> all_gifts, raised |-> FALSE]
    ELSE LET gift == Head(records)
         IN IF ParsedModel(gift.model) \in models_in_collection
            THEN IF gift.price_null THEN [all_gifts |-> all_gifts, raised |-> TRUE]
                 ELSE AcceptTonnel(Append(all_gifts, format_tonnel_gift(gift)),
                                   Tail(records), models_in_collection)
            ELSE AcceptTonnel(all_gifts, Tail(records), models_in_collection)

(* ------------------------ final filter and sort ------------------------ *)

MinFilter(gifts, min_price) ==
    LET Keep(g) == g.price >= min_price.v
    IN IF min_price.given THEN SelectSeq(gifts, Keep) ELSE gifts

(* The upper bound taken as exclusive.                                     *)
MaxFilterStrict(gifts, max_price) ==
    LET Keep(g) == g.price < max_price.v
    IN IF max_price.given THEN SelectSeq(gifts, Keep) ELSE gifts

MaxFilter(gifts, max_price) ==
    LET Keep(g) == g.price <= max_price.v
    IN IF max_price.given THEN SelectSeq(gifts, Keep) ELSE gifts

Reverse(s) == [i \in 1 .. Len(s) |-> s[Len(s) + 1 - i]]

(* list.sort is stable: an element goes behind every element whose key   *)
(* is not larger.                                                          *)
RECURSIVE InsertByPrice(_, _)
InsertByPrice(sorted, g) ==
    IF sorted = <<>> THEN <<g>>
    ELSE IF Head(sorted).price <= g.price
         THEN <<Head(sorted)>> \o InsertByPrice(Tail(sorted), g)
         ELSE <<g>> \o sorted

RECURSIVE SortAsc(_)
SortAsc(s) ==
    IF s = <<>> THEN <<>>
    ELSE InsertByPrice(SortAsc(SubSeq(s, 1, Len(s) - 1)), s[Len(s)])

(* Descending order got by reversing the ascending result.                *)
SortDescUnstable(s) == Reverse(SortAsc(s))

(* sort(reverse=True) reverses, sorts stably, reverses back.              *)
SortDesc(s) == Reverse(SortAsc(Reverse(s)))

SortGifts(gifts, sort) ==
    IF sort = "price_asc" THEN SortAsc(gifts)
    ELSE IF sort = "price_desc" THEN SortDesc(gifts)
    ELSE gifts

FinalFilterSort(gifts, q) ==
    SortGifts(MaxFilter(MinFilter(gifts, q.min_price), q.max_price), q.sort)


(* ------------------------- the request handler ------------------------- *)

(* The handler without the second emptiness test (lines 107-109).         *)
BeginOutcomeNoRecheck(map, a) ==
    LET q == [IdleReq EXCEPT !.color = a.color, !.collections = a.collections,
                             !.min_price = a.min_price, !.max_price = a.max_price,
                             !.sort = ParseSort(a.sort)]
        looked == Lookup(map, a.color)
        filtered == FilterByCollections(looked, a.collections)
    IN IF a.color = "" THEN [q EXCEPT !.pc = "done", !.status = 400]
       ELSE IF looked = <<>> THEN [q EXCEPT !.pc = "done", !.status = 200]
       ELSE [q EXCEPT !.pc = "portals", !.models_for_color = filtered]

(* lines 81-109: argument parsing, validation, index lookup, collection   *)
(* filter.                                                                 *)
BeginOutcome(map, a) ==
    LET q == [IdleReq EXCEPT !.color = a.color, !.collections = a.collections,
                             !.min_price = a.min_price, !.max_price = a.max_price,
                             !.sort = ParseSort(a.sort)]
        looked == Lookup(map, a.color)
        filtered == FilterByCollections(looked, a.collections)
    IN IF a.color = "" THEN [q EXCEPT !.pc = "done", !.status = 400]
       ELSE IF looked = <<>> THEN [q EXCEPT !.pc = "done", !.status = 200]
       ELSE IF filtered = <<>> THEN [q EXCEPT !.pc = "done", !.status = 200]
       ELSE [q EXCEPT !.pc = "portals", !.models_for_color = filtered]

(* The collection filter applied to the cached list itself.               *)
SearchBeginInPlace(r, a) ==
    /\ loaded = "yes"
    /\ req[r].pc = "idle"
    /\ req' = [req EXCEPT ![r] = BeginOutcome(CACHED_DATA.color_model_map, a)]
    /\ CACHED_DATA' =
          IF a.color \in DOMAIN CACHED_DATA.color_model_map
          THEN [CACHED_DATA EXCEPT !.color_model_map[a.color] =
                                      FilterByCollections(@, a.collections)]
          ELSE CACHED_DATA
    /\ UNCHANGED <<remote, loaded>>

SearchBegin(r, a) ==
    /\ loaded = "yes"
    /\ req[r].pc = "idle"
    /\ req' = [req EXCEPT ![r] = BeginOutcome(CACHED_DATA.color_model_map, a)]
    /\ UNCHANGED <<remote, CACHED_DATA, loaded>>

(* list(set(...)) yields the distinct collections in an order the hash    *)
(* seed decides.                                                           *)
CollectionsToSearch(q) ==
    IF q.collections # <<>> THEN {q.collections}
    ELSE LET S == DistinctCollections(q.models_for_color)
         IN {s \in SeqsUpTo(S, Cardinality(S)) : Range(s) = S}

(* The next position of the Tonnel loop that is not skipped by continue.  *)
RECURSIVE NextIndex(_, _, _)
NextIndex(pairs, cts, i) ==
    IF i > Len(cts) THEN i
    ELSE IF ModelsInCollection(pairs, cts[i]) # {} THEN i
    ELSE NextIndex(pairs, cts, i + 1)

(* lines 164-173                                                           *)
Finish(q) ==
    LET out == FinalFilterSort(q.all_gifts, q)
    IN [q EXCEPT !.merged = q.all_gifts, !.all_gifts = out, !.response = out,
                 !.status = 200, !.pc = "done"]

(* lines 114-142: the Portals try block, then the start of the Tonnel one *)
PortalsPhase(q, resp, order) ==
    LET acc == IF resp.raised THEN [all_gifts |-> q.all_gifts, raised |-> TRUE]
               ELSE AcceptPortals(q.all_gifts, resp.records, q.models_for_color)
        outcome == IF resp.raised THEN "raise" ELSE IF acc.raised THEN "partial" ELSE "ok"
        q1 == [q EXCEPT !.all_gifts = acc.all_gifts, !.portals_outcome = outcome,
                        !.a_count = Len(acc.all_gifts),
                        !.collections_to_search = order,
                        !.tidx = NextIndex(q.models_for_color, order, 1)]
    IN IF q1.tidx > Len(order) THEN Finish(q1) ELSE [q1 EXCEPT !.pc = "tonnel"]

QueryPortals(r, resp) ==
    /\ req[r].pc = "portals"
    /\ \E order \in CollectionsToSearch(req[r]) :
          req' = [req EXCEPT ![r] = PortalsPhase(req[r], resp, order)]
    /\ UNCHANGED <<remote, CACHED_DATA, loaded>>

(* The Tonnel loop without its except clause: an exception reaches the    *)
(* framework, which answers 500.                                          *)
TonnelStepUncaught(q, resp) ==
    LET collection_name == q.collections_to_search[q.tidx]
        models_in_collection == ModelsInCollection(q.models_for_color, collection_name)
        acc == IF resp.raised THEN [all_gifts |-> q.all_gifts, raised |-> TRUE]
               ELSE AcceptTonnel(q.all_gifts, resp.records, models_in_collection)
        outcome == IF resp.raised THEN "raise" ELSE IF acc.raised THEN "partial" ELSE "ok"
        nxt == NextIndex(q.models_for_color, q.collections_to_search, q.tidx + 1)
        q1 == [q EXCEPT !.all_gifts = acc.all_gifts,
                        !.tonnel_outcomes =
                            Append(@, [collection |-> collection_name, outcome |-> outcome])]
    IN IF acc.raised THEN [q1 EXCEPT !.merged = q1.all_gifts, !.status = 500, !.pc = "done"]
       ELSE IF nxt > Len(q.collections_to_search) THEN Finish(q1)
       ELSE [q1 EXCEPT !.tidx = nxt]

(* lines 144-173: one iteration of the Tonnel loop; the except clause     *)
(* encloses the loop, so an exception ends it.                            *)
TonnelStep(q, resp) ==
    LET collection_name == q.collections_to_search[q.tidx]
        models_in_collection == ModelsInCollection(q.models_for_color, collection_name)
        acc == IF resp.raised THEN [all_gifts |-> q.all_gifts, raised |-> TRUE]
               ELSE AcceptTonnel(q.all_gifts, resp.records, models_in_collection)
        outcome == IF resp.raised THEN "raise" ELSE IF acc.raised THEN "partial" ELSE "ok"
        nxt == NextIndex(q.models_for_color, q.collections_to_search, q.tidx + 1)
        q1 == [q EXCEPT !.all_gifts = acc.all_gifts,
                        !.tonnel_outcomes =
                            Append(@, [collection |-> collection_name, outcome |-> outcome])]
    IN IF acc.raised \/ nxt > Len(q.collections_to_search) THEN Finish(q1)
       ELSE [q1 EXCEPT !.tidx = nxt]

QueryTonnel(r, resp) ==
    /\ req[r].pc = "tonnel"
    /\ req' = [req EXCEPT ![r] = TonnelStep(req[r], resp)]
    /\ UNCHANGED <<remote, CACHED_DATA, loaded>>

(* GET /api/filters                                                        *)
get_filters(r) ==
    /\ loaded = "yes"
    /\ req[r].pc = "idle"
    /\ req' = [req EXCEPT ![r] = [IdleReq EXCEPT !.pc = "done", !.status = 200,
                                                 !.filters_body = CACHED_DATA]]
    /\ UNCHANGED <<remote, CACHED_DATA, loaded>>

(* The response is sent; the worker takes the next request.               *)
Respond(r) ==
    /\ req[r].pc = "done"
    /\ req' = [req EXCEPT ![r] = IdleReq]
    /\ UNCHANGED <<remote, CACHED_DATA, loaded>>

(* ---------------------------- inputs ----------------------------------- *)

JsonFile(stem, body) == [stem |-> stem, ext |-> ".json", ok |-> TRUE, body |-> body]
Dict(model, color) == [model |-> model, data |-> [kind |-> "dict", color |-> color]]

HealthyRemote ==
    [collections_ok |-> TRUE, backdrops_ok |-> TRUE, listing_ok |-> TRUE,
     files |-> <<JsonFile("c1", <<Dict("m1", "red"), Dict("m2", "blue")>>),
                 JsonFile("c2", <<Dict("m1", "red"), Dict("m2", "")>>)>>]

SearchRemotes == {HealthyRemote, [HealthyRemote EXCEPT !.collections_ok = FALSE]}

Args ==
    [color : {"", "red", "green"},
     collections : {<<>>, <<"c1">>, <<"c2", "c1">>, <<"c3">>},
     min_price : {NoPrice, Price(110), Price(121)},
     max_price : {NoPrice, Price(110)},
     sort : {"absent", "price_asc", "price_desc", "newest"}]

ConcArgs ==
    [color : {"red"}, collections : {<<>>, <<"c1">>}, min_price : {NoPrice},
     max_price : {NoPrice}, sort : {"absent"}]

ConcPortalsResponses ==
    {[raised |-> TRUE, records |-> <<>>],
     [raised |-> FALSE,
      records |-> <<[name |-> "c2", has_name |-> TRUE, has_model |-> TRUE,
                     model |-> "m1", price |-> 11]>>]}

ConcTonnelResponses ==
    {[raised |-> TRUE, records |-> <<>>],
     [raised |-> FALSE,
      records |-> <<[name |-> "c1", model |-> <<"m1">>, price |-> 10,
                     price_null |-> FALSE]>>]}

(* --------------------------- specifications ---------------------------- *)

Start(remotes) ==
    /\ remote \in remotes
    /\ CACHED_DATA = InitialCache
    /\ loaded = "no"
    /\ req = [r \in Requests |-> IdleReq]

(* One worker serving one request after the other.                        *)
Init == Start(SearchRemotes)

Next ==
    \/ load_initial_data
    \/ \E a \in Args : SearchBegin(1, a)
    \/ \E resp \in PortalsResponses : QueryPortals(1, resp)
    \/ \E resp \in TonnelResponses : QueryTonnel(1, resp)
    \/ get_filters(1)
    \/ Respond(1)

Spec == Init /\ [][Next]_vars

(* Requests served concurrently.                                          *)
NextConc ==
    \/ load_initial_data
    \/ \E r \in Requests, a \in ConcArgs : SearchBegin(r, a)
    \/ \E r \in Requests, resp \in ConcPortalsResponses : QueryPortals(r, resp)
    \/ \E r \in Requests, resp \in ConcTonnelResponses : QueryTonnel(r, resp)
    \/ \E r \in Requests : get_filters(r)
    \/ \E r \in Requests : Respond(r)

SpecConc == Init /\ [][NextConc]_vars

(* The startup build over every content source of the bounds.             *)
InitBuild == Start(Remotes)

NextBuild == load_initial_data

SpecBuild == InitBuild /\ [][NextBuild]_vars


(* ============================== claims ================================= *)

SearchDone(q) == q.pc = "done" /\ q.color # ""

(* C1: every gift returned for color C has its (collection, model) pair   *)
(* in ColorIndex[C] and, when a collections filter was given, its         *)
(* collection in the filter -- for records of either source.              *)
C1_ReturnedGiftsAreIndexed ==
    \A r \in Requests :
        LET q == req[r]
        IN SearchDone(q) =>
             \A i \in DOMAIN q.response :
                /\ Pair(q.response[i].name, q.response[i].model)
                      \in Range(Lookup(CACHED_DATA.color_model_map, q.color))
                /\ q.collections # <<>> => q.response[i].name \in Range(q.collections)

(* What the written contract of the build makes of a listing: a file      *)
(* that fails is left out, an entry with main_color goes under that       *)
(* color, a bare string under itself, any other entry is skipped.         *)
RECURSIVE ContractEntries(_, _, _)
ContractEntries(map, gift_name, entries) ==
    IF entries = <<>> THEN map
    ELSE LET e == Head(entries)
             accepted == e.data.kind \in {"dict", "str"} /\ e.data.color # ""
         IN ContractEntries(
               IF accepted
               THEN [map EXCEPT ![e.data.color] = Append(@, Pair(gift_name, e.model))]
               ELSE map,
               gift_name, Tail(entries))

RECURSIVE ContractIndex(_, _)
ContractIndex(map, files) ==
    IF files = <<>> THEN map
    ELSE LET f == Head(files)
         IN ContractIndex(
               IF f.ext = ".json" /\ f.ok THEN ContractEntries(map, f.stem, f.body) ELSE map,
               Tail(files))

FailingFiles(files) == {i \in DOMAIN files : files[i].ext = ".json" /\ ~files[i].ok}

AllEntriesColored(files) ==
    \A i \in DOMAIN files : \A j \in DOMAIN files[i].body :
        files[i].body[j].data.kind = "dict" /\ files[i].body[j].data.color # ""

(* C2: when one per-collection file fails to download or parse, the build *)
(* completes and the index holds every entry of every other file.         *)
C2_OneFailingFileOnlyLosesItself ==
    (/\ loaded # "no"
     /\ remote.collections_ok /\ remote.backdrops_ok /\ remote.listing_ok
     /\ Cardinality(FailingFiles(remote.files)) = 1
     /\ AllEntriesColored(remote.files))
    => /\ loaded = "yes"
       /\ CACHED_DATA.color_model_map = ContractIndex(EmptyMap, remote.files)

(* C3: when the collections or the backdrops catalog cannot be fetched,   *)
(* that catalog stays empty and the index is still built from the files.  *)
C3_CatalogFailureKeepsIndex ==
    (/\ loaded # "no"
     /\ ~remote.collections_ok \/ ~remote.backdrops_ok
     /\ remote.listing_ok
     /\ FailingFiles(remote.files) = {}
     /\ AllEntriesColored(remote.files))
    => /\ loaded = "yes"
       /\ ~remote.collections_ok => CACHED_DATA.collections = <<>>
       /\ ~remote.backdrops_ok => CACHED_DATA.backdrops = <<>>
       /\ CACHED_DATA.color_model_map = ContractIndex(EmptyMap, remote.files)

(* C5: each entry is handled on its own: main_color if present, else a    *)
(* bare string as the color, else skipped; the rest is still processed.   *)
C5_EntriesParsedIndependently ==
    (/\ loaded # "no"
     /\ remote.collections_ok /\ remote.backdrops_ok /\ remote.listing_ok
     /\ FailingFiles(remote.files) = {})
    => CACHED_DATA.color_model_map = ContractIndex(EmptyMap, remote.files)

(* C4: a source whose call raises contributes nothing and the other       *)
(* source's validated records, filtered and sorted, are the response; no  *)
(* exception leaves search.                                               *)
C4_SourceFailureIsolated ==
    \A r \in Requests :
        LET q == req[r]
            allRaised == /\ q.tonnel_outcomes # <<>>
                         /\ \A i \in DOMAIN q.tonnel_outcomes :
                               q.tonnel_outcomes[i].outcome = "raise"
        IN SearchDone(q) =>
             /\ q.status = 200
             /\ allRaised =>
                   q.response = FinalFilterSort(SubSeq(q.merged, 1, q.a_count), q)
             /\ q.portals_outcome = "raise" =>
                   /\ q.a_count = 0
                   /\ \A i \in DOMAIN q.response : q.response[i].source = "tonnel"
                   /\ q.response = FinalFilterSort(q.merged, q)

C4_Witness ==
    /\ SearchDone(req[1])
    /\ req[1].tonnel_outcomes = <<[collection |-> "c1", outcome |-> "raise"]>>
    /\ Len(req[1].collections_to_search) = 2
    /\ req[1].a_count > 0
    /\ req[1].response # <<>>

InBounds(g, q) ==
    /\ q.min_price.given => q.min_price.v <= g.price
    /\ q.max_price.given => g.price <= q.max_price.v

(* C6: every returned gift has minPrice <= price <= maxPrice for the      *)
(* bounds supplied, price being the raw price for Portals and the raw     *)
(* price with the 1.1 markup for Tonnel; a gift at a bound is kept.       *)
C6_PriceWithinBounds ==
    \A r \in Requests :
        LET q == req[r]
        IN SearchDone(q) =>
             /\ \A i \in DOMAIN q.response : InBounds(q.response[i], q)
             /\ \A i \in DOMAIN q.merged :
                   IF q.merged[i].source = "tonnel"
                   THEN \E p \in TonnelRawPrices : 10 * q.merged[i].price = 11 * (10 * p)
                   ELSE \E p \in PortalsRawPrices : q.merged[i].price = 10 * p
             /\ Len(q.response)
                   = Cardinality({i \in DOMAIN q.merged : InBounds(q.merged[i], q)})

C6_Witness ==
    /\ SearchDone(req[1])
    /\ req[1].max_price.given /\ req[1].min_price.given
    /\ Len(req[1].response) < Len(req[1].merged)
    /\ \E i \in DOMAIN req[1].response :
          /\ req[1].response[i].source = "tonnel"
          /\ req[1].response[i].price = req[1].max_price.v

(* C7: the response is non-decreasing in price for price_asc (and for no  *)
(* sort argument), non-increasing for price_desc, and gifts of one price  *)
(* stay in merge order: Portals before Tonnel, upstream order otherwise.  *)
C7_SortedAndStable ==
    \A r \in Requests :
        LET q == req[r]
            n == Len(q.response)
            SamePrice(s, p) == LET Is(g) == g.price = p IN SelectSeq(s, Is)
        IN (SearchDone(q) /\ q.sort \in {"price_asc", "price_desc"}) =>
             /\ \A i, j \in 1 .. n :
                   i < j => IF q.sort = "price_asc"
                            THEN q.response[i].price <= q.response[j].price
                            ELSE q.response[i].price >= q.response[j].price
             /\ \A i, j \in 1 .. n :
                   (i < j /\ q.response[i].price = q.response[j].price)
                      => ~(q.response[i].source = "tonnel" /\ q.response[j].source = "portals")
             /\ \A i \in 1 .. n :
                   SamePrice(q.response, q.response[i].price)
                      = SamePrice(q.merged, q.response[i].price)

C7_Witness ==
    /\ SearchDone(req[1])
    /\ req[1].sort = "price_desc"
    /\ Len(req[1].response) = 3
    /\ req[1].response[1].price > req[1].response[2].price
    /\ req[1].response[2].price = req[1].response[3].price
    /\ req[1].response[2].source = "portals"
    /\ req[1].response[3].source = "tonnel"
    /\ req[1].merged[1] = req[1].response[2]

(* C8: a color without index entry, or a collections filter that leaves   *)
(* no candidate, gives the empty list as a success without any call to    *)
(* an adapter.                                                            *)
C8_NoCandidatesNoCalls ==
    \A r \in Requests :
        LET q == req[r]
        IN (/\ q.pc # "idle"
            /\ q.color # ""
            /\ FilterByCollections(Lookup(CACHED_DATA.color_model_map, q.color),
                                   q.collections) = <<>>)
           => /\ q.pc = "done"
              /\ q.status = 200
              /\ q.response = <<>>
              /\ q.portals_outcome = "none"
              /\ q.tonnel_outcomes = <<>>

C8_Witness ==
    /\ SearchDone(req[1])
    /\ Lookup(CACHED_DATA.color_model_map, req[1].color) # <<>>
    /\ req[1].collections # <<>>
    /\ FilterByCollections(Lookup(CACHED_DATA.color_model_map, req[1].color),
                           req[1].collections) = <<>>
    /\ req[1].response = <<>>

(* C9: an error for one collection of the Tonnel phase loses that         *)
(* collection only: every other collection to query is still queried.     *)
C9_EveryCollectionQueried ==
    \A r \in Requests :
        LET q == req[r]
        IN (SearchDone(q) /\ q.models_for_color # <<>>) =>
             \A c \in Range(q.collections_to_search) :
                ModelsInCollection(q.models_for_color, c) # {}
                   => \E i \in DOMAIN q.tonnel_outcomes : q.tonnel_outcomes[i].collection = c

CandidatesAreLocal ==
    \A r \in Requests :
        LET q == req[r]
        IN /\ q.pc \in {"portals", "tonnel"} =>
                q.models_for_color
                   = FilterByCollections(Lookup(CACHED_DATA.color_model_map, q.color),
                                         q.collections)
           /\ (q.pc = "done" /\ q.color = "" /\ q.status = 200) =>
                q.filters_body = CACHED_DATA

(* C10: once the build is over no request changes the index or the        *)
(* catalogs, a step changes the locals of one request only, and a         *)
(* request's candidates depend on its own arguments and the index alone.  *)
C10_CacheReadOnly ==
    /\ []CandidatesAreLocal
    /\ [][/\ loaded = "yes" => CACHED_DATA' = CACHED_DATA
          /\ \A r1, r2 \in Requests :
                r1 # r2 => (req'[r1] = req[r1] \/ req'[r2] = req[r2])]_vars

C10_Witness ==
    /\ req[1].pc = "tonnel" /\ req[2].pc = "tonnel"
    /\ req[1].collections # req[2].collections
    /\ req[1].portals_outcome = "raise"
    /\ req[2].all_gifts # <<>>

====
